---- MODULE Spec2Model ----
(***************************************************************************)
(* Model of docker/scripts/localstack/audit_watch.py: a watcher that       *)
(* resolves an SQS queue, polls it in a loop, shows every message sent     *)
(* after the watcher started at most once, and pretty-prints its body.     *)
(*                                                                         *)
(* Text is modelled as a sequence of tokens.  A token is a record          *)
(* [k, v]: k names the token ("{", ":", "1", "null", a bare word, "SP",    *)
(* "NL", ...) and v is empty, except for a string literal (k = "str")      *)
(* whose v is the text between its quotes.  A Python value is a record     *)
(* [t, s, items]: t is its type, s the text of a string or a number,       *)
(* items the elements of a list or the key/value pairs of a dict.          *)
(***************************************************************************)
EXTENDS Integers, Sequences, FiniteSets, TLC

VARIABLES
    pc,          \* where main() is: main, poll, for, show, sleep, done
    exitStatus,  \* exit status of the process, Running while it runs
    START_TIME,  \* line 13
    SEEN,        \* line 14
    queue_url,   \* line 65
    pending,     \* messages of the for loop (line 80) not yet reached
    cur,         \* msg of the for loop, once it passed the filter
    output,      \* the lines printed so far
    queue,       \* messages held by the queue service
    result,      \* what the last client call left behind (line 30)
    intAt,       \* where the last KeyboardInterrupt was raised
    batch,       \* history: the Messages of the current iteration
    seen0,       \* history: SEEN when the current iteration polled
    mark,        \* history: Len(output) when the current iteration polled
    unslept,     \* history: receive calls since the last sleep
    resolves,    \* history: number of get-queue-url calls
    client,      \* history: the last client call
    config,      \* QUEUE_NAME and REGION as the module holds them (lines 11-12)
    body,        \* a body handed to format_event on its own
    out,         \* what format_event returned for it
    rpc          \* input, rendered; off while the watcher runs

-----------------------------------------------------------------------------
(* Tokens and texts *)

Tok(k) == [k |-> k, v |-> <<>>]

StrTok(text) == [k |-> "str", v |-> text]

NumToks == {"1", "2"}

LitToks == {"null", "true", "false"}

WsToks == {"SP", "NL"}

(* the text of the Python string 'details' *)
DETAILS == <<Tok("details")>>

-----------------------------------------------------------------------------
(* Python values produced by json.loads *)

VNull == [t |-> "null", s |-> <<>>, items |-> <<>>]

VLit(k) == [t |-> k, s |-> <<>>, items |-> <<>>]

VNum(tok) == [t |-> "num", s |-> <<tok>>, items |-> <<>>]

VStr(text) == [t |-> "str", s |-> text, items |-> <<>>]

VList(items) == [t |-> "list", s |-> <<>>, items |-> items]

VDict(pairs) == [t |-> "dict", s |-> <<>>, items |-> pairs]

VPair(key, val) == [t |-> "pair", s |-> key, items |-> <<val>>]

(* dict[key] = val: a repeated key keeps its position and takes the new value *)
DictSet(pairs, key, val) ==
    IF \E i \in 1..Len(pairs) : pairs[i].s = key
    THEN [i \in 1..Len(pairs) |->
            IF pairs[i].s = key THEN VPair(key, val) ELSE pairs[i]]
    ELSE Append(pairs, VPair(key, val))

DictHas(obj, key) == \E i \in 1..Len(obj.items) : obj.items[i].s = key

DictGet(obj, key) ==
    LET i == CHOOSE j \in 1..Len(obj.items) : obj.items[j].s = key
    IN  obj.items[i].items[1]

-----------------------------------------------------------------------------
(* json.loads: a recursive-descent parser over the tokens *)

Fail == [ok |-> FALSE, val |-> VNull, next |-> 0]

Parsed(val, next) == [ok |-> TRUE, val |-> val, next |-> next]

RECURSIVE SkipWs(_, _)
SkipWs(ts, i) ==
    IF i <= Len(ts) /\ ts[i].k \in WsToks THEN SkipWs(ts, i + 1) ELSE i

IsTok(ts, i, k) == i <= Len(ts) /\ ts[i].k = k

RECURSIVE ParseValue(_, _)
RECURSIVE ParseElems(_, _, _)
RECURSIVE ParseMembers(_, _, _)

ParseValue(ts, i0) ==
    LET i == SkipWs(ts, i0)
    IN  IF i > Len(ts) THEN Fail
        ELSE LET k == ts[i].k
             IN  CASE k \in NumToks -> Parsed(VNum(ts[i]), i + 1)
                   [] k \in LitToks -> Parsed(VLit(k), i + 1)
                   [] k = "str" -> Parsed(VStr(ts[i].v), i + 1)
                   [] k = "[" ->
                        LET j == SkipWs(ts, i + 1)
                        IN  IF IsTok(ts, j, "]")
                            THEN Parsed(VList(<<>>), j + 1)
                            ELSE ParseElems(ts, i + 1, <<>>)
                   [] k = "{" ->
                        LET j == SkipWs(ts, i + 1)
                        IN  IF IsTok(ts, j, "}")
                            THEN Parsed(VDict(<<>>), j + 1)
                            ELSE ParseMembers(ts, i + 1, <<>>)
                   [] OTHER -> Fail

ParseElems(ts, i, acc) ==
    LET r == ParseValue(ts, i)
    IN  IF ~r.ok THEN Fail
        ELSE LET j == SkipWs(ts, r.next)
             IN  IF IsTok(ts, j, ",")
                 THEN ParseElems(ts, j + 1, Append(acc, r.val))
                 ELSE IF IsTok(ts, j, "]")
                 THEN Parsed(VList(Append(acc, r.val)), j + 1)
                 ELSE Fail

ParseMembers(ts, i0, acc) ==
    LET i == SkipWs(ts, i0)
    IN  IF ~IsTok(ts, i, "str") THEN Fail
        ELSE LET c == SkipWs(ts, i + 1)
             IN  IF ~IsTok(ts, c, ":") THEN Fail
                 ELSE LET r == ParseValue(ts, c + 1)
                      IN  IF ~r.ok THEN Fail
                          ELSE LET j == SkipWs(ts, r.next)
                                   d == DictSet(acc, ts[i].v, r.val)
                               IN  IF IsTok(ts, j, ",")
                                   THEN ParseMembers(ts, j + 1, d)
                                   ELSE IF IsTok(ts, j, "}")
                                   THEN Parsed(VDict(d), j + 1)
                                   ELSE Fail

(* json.loads(text): one value, then nothing but whitespace *)
loads(ts) ==
    LET r == ParseValue(ts, 1)
    IN  IF r.ok /\ SkipWs(ts, r.next) = Len(ts) + 1 THEN r ELSE Fail

-----------------------------------------------------------------------------
(* json.dumps(obj, indent=2) *)

IndentWidth == 2

Indent(level) == [i \in 1..(IndentWidth * level) |-> Tok("SP")]

RECURSIVE Dumps(_, _)
RECURSIVE DumpItems(_, _, _)

DumpItems(items, level, i) ==
    LET it == items[i]
        one == IF it.t = "pair"
               THEN <<StrTok(it.s), Tok(":"), Tok("SP")>> \o Dumps(it.items[1], level)
               ELSE Dumps(it, level)
        line == <<Tok("NL")>> \o Indent(level) \o one
    IN  IF i = Len(items) THEN line
        ELSE line \o <<Tok(",")>> \o DumpItems(items, level, i + 1)

Dumps(v, level) ==
    CASE v.t = "num" -> v.s
      [] v.t \in LitToks -> <<Tok(v.t)>>
      [] v.t = "str" -> <<StrTok(v.s)>>
      [] v.t = "list" ->
            IF v.items = <<>> THEN <<Tok("["), Tok("]")>>
            ELSE <<Tok("[")>> \o DumpItems(v.items, level + 1, 1)
                   \o <<Tok("NL")>> \o Indent(level) \o <<Tok("]")>>
      [] v.t = "dict" ->
            IF v.items = <<>> THEN <<Tok("{"), Tok("}")>>
            ELSE <<Tok("{")>> \o DumpItems(v.items, level + 1, 1)
                   \o <<Tok("NL")>> \o Indent(level) \o <<Tok("}")>>

dumps(obj) == Dumps(obj, 0)

-----------------------------------------------------------------------------
(* format_event *)

IsJson(text) == loads(text).ok

(* 'details' in obj, for the types that support the test *)
ContainsDetails(obj) ==
    CASE obj.t = "dict" -> DictHas(obj, DETAILS)
      [] obj.t = "list" -> \E i \in 1..Len(obj.items) : obj.items[i] = VStr(DETAILS)
      [] obj.t = "str" -> \E i \in 1..Len(obj.s) : obj.s[i] = Tok("details")

ExpandDetails_null(d) ==
    IF d.t = "str" THEN (IF loads(d.s).ok THEN loads(d.s).val ELSE VNull) ELSE d

(* the try block of the inner json.loads: the value details ends up with *)
ExpandDetails(d) ==
    IF d.t = "str" /\ loads(d.s).ok THEN loads(d.s).val ELSE d

format_event_blank(b) ==
    LET r == loads(b)
        obj == r.val
    IN  IF ~r.ok THEN <<>>
        ELSE IF obj.t \notin {"dict", "list", "str"} THEN b
        ELSE IF ~ContainsDetails(obj) THEN dumps(obj)
        ELSE IF obj.t # "dict" THEN b
        ELSE dumps(VDict(DictSet(obj.items, DETAILS,
                                 ExpandDetails(DictGet(obj, DETAILS)))))

format_event(b) ==
    LET r == loads(b)
        obj == r.val
    IN  IF ~r.ok THEN b
        ELSE IF obj.t \notin {"dict", "list", "str"} THEN b
        ELSE IF ~ContainsDetails(obj) THEN dumps(obj)
        ELSE IF obj.t # "dict" THEN b
        ELSE dumps(VDict(DictSet(obj.items, DETAILS,
                                 ExpandDetails(DictGet(obj, DETAILS)))))

-----------------------------------------------------------------------------
(* Configuration and output lines *)

QUEUE_NAME == <<Tok("audit-queue")>>

REGION == <<Tok("eu-west-2")>>

MaxNumberOfMessages == 10

WaitTimeSeconds == 5

VisibilityTimeout_wait == WaitTimeSeconds

VisibilityTimeout == 0

Running == -1

ExitClean == 0

ExitError_zero == ExitClean

ExitError == 1

ExitSigint == 130

(* a line written by log() or print(); id is the message an event line shows *)
Line(kind, id, text) == [kind |-> kind, id |-> id, text |-> text]

BannerLine == Line("info", VNull, <<Tok("Watching audit queue:")>> \o QUEUE_NAME \o REGION)

WatchingLine == Line("info", VNull, <<Tok("Watching for events sent after")>>)

NotFoundLine == Line("warn", VNull, <<Tok("Error: Queue not found")>>)

StoppedLine == Line("warn", VNull, <<Tok("NL"), Tok("Stopped")>>)

HeaderLine(id) == Line("header", id, <<Tok("New audit event:")>>)

EventLine(id, text) == Line("event", id, text)

BlankLine == Line("blank", VNull, <<>>)

(* the traceback of an uncaught exception, written to standard error *)
TracebackLine == Line("traceback", VNull, <<Tok("Traceback")>>)

-----------------------------------------------------------------------------
(* The queue service behind awslocal *)

K_QueueUrl == <<Tok("QueueUrl")>>

K_Messages == <<Tok("Messages")>>

K_MessageId == <<Tok("MessageId")>>

K_Attributes == <<Tok("Attributes")>>

K_SentTimestamp == <<Tok("SentTimestamp")>>

K_Body == <<Tok("Body")>>

DigitChar == <<"0", "1", "2", "3", "4", "5", "6", "7", "8", "9">>

(* decimal text of a natural number, as the service writes SentTimestamp *)
RECURSIVE ToDigits(_)
ToDigits(n) ==
    IF n < 10 THEN <<Tok(DigitChar[n + 1])>>
    ELSE Append(ToDigits(n \div 10), Tok(DigitChar[(n % 10) + 1]))

(* compact JSON text of a value, as the client writes it to stdout *)
RECURSIVE Encode(_)
RECURSIVE EncodeItems(_, _)

EncodeItems(items, i) ==
    LET it == items[i]
        one == IF it.t = "pair"
               THEN <<StrTok(it.s), Tok(":")>> \o Encode(it.items[1])
               ELSE Encode(it)
    IN  IF i = Len(items) THEN one
        ELSE one \o <<Tok(",")>> \o EncodeItems(items, i + 1)

Encode(v) ==
    CASE v.t = "num" -> v.s
      [] v.t \in LitToks -> <<Tok(v.t)>>
      [] v.t = "str" -> <<StrTok(v.s)>>
      [] v.t = "list" ->
            IF v.items = <<>> THEN <<Tok("["), Tok("]")>>
            ELSE <<Tok("[")>> \o EncodeItems(v.items, 1) \o <<Tok("]")>>
      [] v.t = "dict" ->
            IF v.items = <<>> THEN <<Tok("{"), Tok("}")>>
            ELSE <<Tok("{")>> \o EncodeItems(v.items, 1) \o <<Tok("}")>>

T0 == 9

MaxAhead == 1

MaxBatch == 2

Ids == {<<Tok("m1")>>, <<Tok("m2")>>}

(* SentTimestamp values: before, at and after the start of the watcher *)
SendTimes == (T0 - 1)..(T0 + MaxAhead)

(* the text {"b":2} *)
NestedObj == <<Tok("{"), StrTok(<<Tok("b")>>), Tok(":"), Tok("2"), Tok("}")>>

(* m1 carries {"a":1,"details":"{\"b\":2}"}, m2 a body that is not JSON *)
BodyOf(id) ==
    IF id = <<Tok("m1")>>
    THEN <<Tok("{"), StrTok(<<Tok("a")>>), Tok(":"), Tok("1"), Tok(","),
           StrTok(DETAILS), Tok(":"), StrTok(NestedObj), Tok("}")>>
    ELSE <<Tok("not-json")>>

QMsg(id, ts, b) == [id |-> id, ts |-> ts, body |-> b]

(* how the client can report a message: whole, or with a part missing or   *)
(* a timestamp that is not an integer                                      *)
Malformed == {"no_id", "no_attrs", "no_ts", "bad_ts", "no_body"}

Entry(m, variant) ==
    LET idp == IF variant = "no_id" THEN <<>>
               ELSE <<VPair(K_MessageId, VStr(m.id))>>
        bp == IF variant = "no_body" THEN <<>>
              ELSE <<VPair(K_Body, VStr(m.body))>>
        tsv == IF variant = "bad_ts" THEN VStr(Append(ToDigits(m.ts), Tok("x")))
               ELSE VStr(ToDigits(m.ts))
        ap == CASE variant = "no_attrs" -> <<>>
                [] variant = "no_ts" -> <<VPair(K_Attributes, VDict(<<>>))>>
                [] OTHER -> <<VPair(K_Attributes,
                                    VDict(<<VPair(K_SentTimestamp, tsv)>>))>>
    IN  VDict(idp \o bp \o ap)

WellFormed(q) == {Entry(m, "ok") : m \in q}

RECURSIVE BatchesOfLen(_, _)
BatchesOfLen(q, n) ==
    IF n = 0 THEN {<<>>}
    ELSE {Append(b, e) : b \in BatchesOfLen(q, n - 1), e \in WellFormed(q)}

BatchLimit == IF MaxBatch < MaxNumberOfMessages THEN MaxBatch ELSE MaxNumberOfMessages

(* redelivery and duplicates: any sequence of messages of the queue *)
GoodBatches(q) == UNION {BatchesOfLen(q, n) : n \in 1..BatchLimit}

(* a good batch with one malformed entry put in place of one of its entries *)
BadBatches(q) ==
    UNION {{[b EXCEPT ![i] = Entry(m, v)] :
               i \in 1..Len(b), m \in q, v \in Malformed} :
           b \in GoodBatches(q)}

ClientResult(rc, stdout) == [rc |-> rc, stdout |-> stdout]

NoResult == ClientResult(Running, <<>>)

QueueUrlOf(name) == <<Tok("http://localhost:4566/queue/")>> \o name

ResolveOk == VDict(<<VPair(K_QueueUrl, VStr(QueueUrlOf(QUEUE_NAME)))>>)

(* what `awslocal sqs get-queue-url` can leave behind *)
ResolveResults ==
    {ClientResult(255, <<>>),
     ClientResult(255, Encode(ResolveOk)),
     ClientResult(0, <<>>),
     ClientResult(0, <<Tok("{"), StrTok(K_QueueUrl)>>),
     ClientResult(0, Encode(VDict(<<>>))),
     ClientResult(0, Encode(VDict(<<VPair(<<Tok("Other")>>, VNum(Tok("1")))>>))),
     ClientResult(0, Encode(VList(<<VNum(Tok("1"))>>))),
     ClientResult(0, Encode(ResolveOk))}

MessagesResponse(b) == VDict(<<VPair(K_Messages, VList(b))>>)

(* what `awslocal sqs receive-message` can leave behind for queue q *)
ReceiveResults(q) ==
    {ClientResult(255, <<>>),
     ClientResult(0, <<>>),
     ClientResult(0, <<Tok("{"), StrTok(K_Messages), Tok(":"), Tok("[")>>),
     ClientResult(0, Encode(VDict(<<>>))),
     ClientResult(0, Encode(VDict(<<VPair(<<Tok("Other")>>, VNum(Tok("1")))>>))),
     ClientResult(0, Encode(VList(<<VNum(Tok("1"))>>))),
     ClientResult(0, Encode(VDict(<<VPair(K_Messages, VNull)>>)))}
    \cup {ClientResult(0, Encode(MessagesResponse(b))) :
             b \in GoodBatches(q) \cup BadBatches(q)}
    \cup {ClientResult(255, Encode(MessagesResponse(b))) : b \in BatchesOfLen(q, 1)}

-----------------------------------------------------------------------------
(* The watcher: helpers *)

run_aws_anyrc(r) ==
    IF loads(r.stdout).ok THEN loads(r.stdout).val ELSE VNull

(* run_aws: the parsed stdout, or None (the value of JSON null) *)
run_aws(r) ==
    IF r.rc = 0
    THEN (IF loads(r.stdout).ok THEN loads(r.stdout).val ELSE VNull)
    ELSE VNull

(* Python truth value of a decoded response *)
Truthy(v) ==
    CASE v.t \in {"null", "false"} -> FALSE
      [] v.t = "true" -> TRUE
      [] v.t = "num" -> v.s # <<Tok("0")>>
      [] v.t = "str" -> v.s # <<>>
      [] v.t \in {"list", "dict"} -> v.items # <<>>

PyOk(val) == [ok |-> TRUE, val |-> val]

PyRaise == [ok |-> FALSE, val |-> VNull]

(* v[key]: KeyError when the key is missing, TypeError when v is no dict *)
Subscript(v, key) ==
    IF v.t = "dict" /\ DictHas(v, key) THEN PyOk(DictGet(v, key)) ELSE PyRaise

IsDigit(k) == \E d \in 1..10 : DigitChar[d] = k

DigitVal(k) == (CHOOSE d \in 1..10 : DigitChar[d] = k) - 1

RECURSIVE DigitsVal(_, _)
DigitsVal(text, acc) ==
    IF text = <<>> THEN acc
    ELSE DigitsVal(Tail(text), 10 * acc + DigitVal(Head(text).k))

IntOk(n) == [ok |-> TRUE, n |-> n]

IntRaise == [ok |-> FALSE, n |-> 0]

(* int(v): ValueError unless a string is all digits, TypeError for None, lists, dicts *)
PyInt(v) ==
    CASE v.t = "str" ->
            IF v.s # <<>> /\ \A i \in 1..Len(v.s) : IsDigit(v.s[i].k)
            THEN IntOk(DigitsVal(v.s, 0)) ELSE IntRaise
      [] v.t = "num" -> IntOk(DigitsVal(v.s, 0))
      [] v.t = "true" -> IntOk(1)
      [] v.t = "false" -> IntOk(0)
      [] OTHER -> IntRaise

(* line 82: int(msg['Attributes']['SentTimestamp']) *)
SentTs(msg) ==
    LET a == Subscript(msg, K_Attributes)
        t == IF a.ok THEN Subscript(a.val, K_SentTimestamp) ELSE PyRaise
    IN  IF t.ok THEN PyInt(t.val) ELSE IntRaise

shouldDisplay_ge(sent_ts, msg_id, start, seen) ==
    sent_ts >= start /\ msg_id \notin seen

shouldDisplay_any(sent_ts, msg_id, start, seen) ==
    msg_id \notin seen

shouldDisplay_again(sent_ts, msg_id, start, seen) ==
    sent_ts > start

(* line 85 *)
shouldDisplay(sent_ts, msg_id, start, seen) ==
    sent_ts > start /\ msg_id \notin seen

MarkSeen_only(seen, msg_id) == {msg_id}

(* line 86: SEEN.add(msg_id) *)
MarkSeen(seen, msg_id) == seen \cup {msg_id}

(* what format_event returns when KeyboardInterrupt is raised inside it:   *)
(* the outer bare except returns the body, the inner one skips the         *)
(* expansion of details                                                    *)
FormatInterrupted(b) ==
    LET r == loads(b)
    IN  {b} \cup
        (IF r.ok /\ r.val.t = "dict" /\ DictHas(r.val, DETAILS)
              /\ DictGet(r.val, DETAILS).t = "str"
         THEN {dumps(r.val)} ELSE {})

-----------------------------------------------------------------------------
(* The watcher: state and steps *)

ClientCall(op, target, max, wait, vis) ==
    [op |-> op, target |-> target, max |-> max, wait |-> wait, vis |-> vis]

NoCall == ClientCall("none", <<>>, 0, 0, 0)

(* the configuration of lines 11-12 *)
Config == [queue_name |-> QUEUE_NAME, region |-> REGION]

GetQueueUrlCall == ClientCall("get-queue-url", QUEUE_NAME, 0, 0, 0)

ReceiveCall_byname(url) ==
    ClientCall("receive-message", QUEUE_NAME, MaxNumberOfMessages,
               WaitTimeSeconds, VisibilityTimeout)

ReceiveCall(url) ==
    ClientCall("receive-message", url, MaxNumberOfMessages, WaitTimeSeconds,
               VisibilityTimeout)

(* the identifiers of the messages a receive call delivered *)
Delivered(r) ==
    LET p == loads(r.stdout)
        got == IF p.ok THEN Subscript(p.val, K_Messages) ELSE PyRaise
        msgs == IF got.ok /\ got.val.t = "list" THEN got.val.items ELSE <<>>
    IN  {Subscript(msgs[i], K_MessageId).val :
            i \in {j \in 1..Len(msgs) : Subscript(msgs[j], K_MessageId).ok}}

(* the queue after a receive call: the service hides every delivered       *)
(* message for the visibility timeout of the call, so with a timeout of 0  *)
(* the queue is as before                                                  *)
AfterReceive(q, call, r) ==
    IF call.vis > 0 THEN {m \in q : VStr(m.id) \notin Delivered(r)} ELSE q

envVars == <<queue>>

iterVars == <<result, batch, seen0, mark, unslept>>

callVars == <<resolves, client, config>>

vars ==
    <<pc, exitStatus, START_TIME, SEEN, queue_url, pending, cur, output,
      queue, result, intAt, batch, seen0, mark, unslept, resolves, client, config,
      body, out, rpc>>

Init ==
    /\ pc = "main"
    /\ exitStatus = Running
    /\ START_TIME = T0
    /\ SEEN = {}
    /\ queue_url = <<>>
    /\ pending = <<>>
    /\ cur = VNull
    /\ output = <<>>
    /\ queue = {}
    /\ result = NoResult
    /\ intAt = "none"
    /\ batch = <<>>
    /\ seen0 = {}
    /\ mark = 0
    /\ unslept = 0
    /\ resolves = 0
    /\ client = NoCall
    /\ config = Config
    /\ body = <<>>
    /\ out = <<>>
    /\ rpc = "off"

(* an uncaught exception: traceback on stderr, exit status 1 *)
Crash(printed) ==
    /\ pc' = "done"
    /\ exitStatus' = ExitError
    /\ output' = Append(printed, TracebackLine)

AfterMessage_nosleep(rest) == IF rest = <<>> THEN "poll" ELSE "for"

(* the next statement once the current message is dealt with *)
AfterMessage(rest) == IF rest = <<>> THEN "sleep" ELSE "for"

(* lines 58-67: banner, get-queue-url, exit 1 or enter the loop *)
Resolve ==
    /\ pc = "main"
    /\ \E r \in ResolveResults :
         LET response == run_aws(r)
             url == Subscript(response, K_QueueUrl)
         IN  /\ result' = r
             /\ client' = GetQueueUrlCall
             /\ resolves' = resolves + 1
             /\ UNCHANGED config
             /\ IF ~Truthy(response)
                THEN /\ output' = output \o <<BannerLine, NotFoundLine>>
                     /\ pc' = "done"
                     /\ exitStatus' = ExitError
                     /\ UNCHANGED queue_url
                ELSE IF ~url.ok
                THEN /\ Crash(Append(output, BannerLine))
                     /\ UNCHANGED queue_url
                ELSE /\ queue_url' = url.val.s
                     /\ output' = output \o <<BannerLine, WatchingLine>>
                     /\ pc' = "poll"
                     /\ UNCHANGED exitStatus
    /\ UNCHANGED <<START_TIME, SEEN, pending, cur, intAt, batch, seen0, mark>>
    /\ UNCHANGED unslept
    /\ UNCHANGED <<envVars, body, out, rpc>>

(* lines 71-80: receive-message, then the for loop over Messages, if any *)
Poll ==
    /\ pc = "poll"
    /\ \E r \in ReceiveResults(queue) :
         LET response == run_aws(r)
             got == Subscript(response, K_Messages)
             msgs == IF got.ok THEN got.val ELSE VList(<<>>)
         IN  /\ result' = r
             /\ client' = ReceiveCall(queue_url)
             /\ queue' = AfterReceive(queue, ReceiveCall(queue_url), r)
             /\ UNCHANGED <<resolves, config>>
             /\ seen0' = SEEN
             /\ mark' = Len(output)
             /\ unslept' = unslept + 1
             /\ IF ~Truthy(response)
                THEN /\ pc' = "sleep"
                     /\ pending' = <<>>
                     /\ batch' = <<>>
                     /\ UNCHANGED <<output, exitStatus>>
                ELSE IF response.t # "dict"
                THEN /\ Crash(output)
                     /\ pending' = <<>>
                     /\ batch' = <<>>
                ELSE IF msgs.t = "list"
                THEN /\ pending' = msgs.items
                     /\ batch' = msgs.items
                     /\ pc' = AfterMessage(msgs.items)
                     /\ UNCHANGED <<output, exitStatus>>
                ELSE IF msgs.t \in {"str", "dict"} /\ ~Truthy(msgs)
                THEN /\ pc' = "sleep"
                     /\ pending' = <<>>
                     /\ batch' = <<>>
                     /\ UNCHANGED <<output, exitStatus>>
                ELSE /\ Crash(output)
                     /\ pending' = <<>>
                     /\ batch' = <<>>
    /\ UNCHANGED <<START_TIME, SEEN, queue_url, cur, intAt>>
    /\ UNCHANGED <<body, out, rpc>>

(* lines 81-86: read the next message, filter it, mark it seen *)
Filter ==
    /\ pc = "for"
    /\ LET msg == Head(pending)
           rest == Tail(pending)
           msg_id == Subscript(msg, K_MessageId)
           sent_ts == SentTs(msg)
       IN  IF ~msg_id.ok \/ ~sent_ts.ok
           THEN /\ Crash(output)
                /\ UNCHANGED <<SEEN, pending, cur>>
           ELSE IF shouldDisplay(sent_ts.n, msg_id.val, START_TIME, SEEN)
           THEN /\ SEEN' = MarkSeen(SEEN, msg_id.val)
                /\ cur' = msg
                /\ pending' = rest
                /\ pc' = "show"
                /\ UNCHANGED <<output, exitStatus>>
           ELSE /\ pending' = rest
                /\ pc' = AfterMessage(rest)
                /\ UNCHANGED <<SEEN, cur, output, exitStatus>>
    /\ UNCHANGED <<START_TIME, queue_url, intAt, iterVars, callVars>>
    /\ UNCHANGED <<envVars, body, out, rpc>>

(* lines 87-90: header, rendered body, blank line *)
Show ==
    /\ pc = "show"
    /\ LET id == DictGet(cur, K_MessageId)
           b == Subscript(cur, K_Body)
       IN  IF ~b.ok
           THEN Crash(Append(output, HeaderLine(id)))
           ELSE /\ output' = output \o
                        <<HeaderLine(id), EventLine(id, format_event(b.val.s)),
                          BlankLine>>
                /\ pc' = AfterMessage(pending)
                /\ UNCHANGED exitStatus
    /\ cur' = VNull
    /\ UNCHANGED <<START_TIME, SEEN, queue_url, pending, intAt>>
    /\ UNCHANGED <<iterVars, callVars, envVars, body, out, rpc>>

(* line 92: the locals of the finished iteration are dead afterwards *)
Sleep ==
    /\ pc = "sleep"
    /\ pc' = "poll"
    /\ result' = NoResult
    /\ batch' = <<>>
    /\ seen0' = {}
    /\ mark' = 0
    /\ unslept' = 0
    /\ UNCHANGED <<exitStatus, START_TIME, SEEN, queue_url, pending, cur, output>>
    /\ UNCHANGED <<intAt, callVars, envVars, body, out, rpc>>

Stopped_exit1(printed, at) ==
    /\ intAt' = at
    /\ output' = Append(printed, StoppedLine)
    /\ pc' = "done"
    /\ exitStatus' = ExitError

(* lines 94-95: KeyboardInterrupt reaches the handler of the loop *)
Stopped(printed, at) ==
    /\ intAt' = at
    /\ output' = Append(printed, StoppedLine)
    /\ pc' = "done"
    /\ exitStatus' = ExitClean

(* Ctrl-C while run_aws waits, between two messages, or in time.sleep *)
Interrupt ==
    /\ pc \in {"poll", "for", "sleep"}
    /\ Stopped(output, pc)
    /\ UNCHANGED <<START_TIME, SEEN, queue_url, pending, cur>>
    /\ UNCHANGED <<iterVars, callVars, envVars, body, out, rpc>>

(* Ctrl-C in lines 87-90 outside format_event: what was printed so far stays *)
InterruptShow ==
    /\ pc = "show"
    /\ LET id == DictGet(cur, K_MessageId)
           b == Subscript(cur, K_Body)
           shown == IF b.ok
                    THEN {<<HeaderLine(id), EventLine(id, format_event(b.val.s))>>,
                          <<HeaderLine(id), EventLine(id, format_event(b.val.s)),
                            BlankLine>>}
                    ELSE {}
       IN  \E printed \in {<<>>, <<HeaderLine(id)>>} \cup shown :
              Stopped(output \o printed, "show")
    /\ UNCHANGED <<START_TIME, SEEN, queue_url, pending, cur>>
    /\ UNCHANGED <<iterVars, callVars, envVars, body, out, rpc>>

(* Ctrl-C inside format_event: a bare except swallows it, the loop goes on *)
InterruptFormat ==
    /\ pc = "show"
    /\ LET id == DictGet(cur, K_MessageId)
           b == Subscript(cur, K_Body)
       IN  /\ b.ok
           /\ \E text \in FormatInterrupted(b.val.s) :
                output' = output \o
                    <<HeaderLine(id), EventLine(id, text), BlankLine>>
    /\ intAt' = "format"
    /\ pc' = AfterMessage(pending)
    /\ cur' = VNull
    /\ UNCHANGED <<exitStatus, START_TIME, SEEN, queue_url, pending>>
    /\ UNCHANGED <<iterVars, callVars, envVars, body, out, rpc>>

(* Ctrl-C before the try block: uncaught, the interpreter dies of SIGINT *)
InterruptStartup ==
    /\ pc = "main"
    /\ intAt' = "startup"
    /\ \E printed \in {<<>>, <<BannerLine>>} :
          output' = Append(output \o printed, TracebackLine)
    /\ pc' = "done"
    /\ exitStatus' = ExitSigint
    /\ UNCHANGED <<START_TIME, SEEN, queue_url, pending, cur>>
    /\ UNCHANGED <<iterVars, callVars, envVars, body, out, rpc>>

(* a message becomes visible in the queue; the service stamped it when it  *)
(* was sent, before or after the watcher started.  What arrives during an  *)
(* iteration is first seen by the next receive call, so arrivals are taken *)
(* where the watcher is about to call the client.                          *)
Send ==
    /\ pc \in {"main", "poll"}
    /\ \E id \in Ids, ts \in SendTimes :
          /\ \A m \in queue : m.id # id
          /\ queue' = queue \cup {QMsg(id, ts, BodyOf(id))}
    /\ UNCHANGED <<pc, exitStatus, START_TIME, SEEN, queue_url, pending, cur>>
    /\ UNCHANGED <<output, intAt, iterVars, callVars, body, out, rpc>>

Next ==
    \/ Resolve
    \/ Poll
    \/ Filter
    \/ Show
    \/ Sleep
    \/ Interrupt
    \/ InterruptShow
    \/ InterruptFormat
    \/ InterruptStartup
    \/ Send

Spec == Init /\ [][Next]_vars

-----------------------------------------------------------------------------
(* Properties of the watch loop *)

(* the identifiers of the event lines of o, in order *)
RECURSIVE EventIds(_)
EventIds(o) ==
    IF o = <<>> THEN <<>>
    ELSE IF Head(o).kind = "event" THEN <<Head(o).id>> \o EventIds(Tail(o))
    ELSE EventIds(Tail(o))

Displayed(id) == \E i \in 1..Len(output) : output[i].kind = "event" /\ output[i].id = id

LastLine == output[Len(output)]

(* the client exited non-zero or its output is not JSON *)
ClientFailed(r) == r # NoResult /\ (r.rc # 0 \/ ~IsJson(r.stdout))

(* C1: no identifier appears twice among the displayed events, whatever    *)
(* the polls redeliver and however often a response repeats a message.     *)
C1_DisplayedAtMostOnce ==
    \A i, j \in 1..Len(output) :
        (output[i].kind = "event" /\ output[j].kind = "event"
            /\ output[i].id = output[j].id) => i = j

(* an iteration has ended whose poll returned again a message displayed before *)
C1_Witness ==
    /\ pc = "sleep"
    /\ \E i \in 1..Len(batch) :
          /\ Subscript(batch[i], K_MessageId).ok
          /\ Subscript(batch[i], K_MessageId).val \in seen0
          /\ Displayed(Subscript(batch[i], K_MessageId).val)

(* C2: a message whose SentTimestamp is at most START_TIME is never        *)
(* displayed: every displayed identifier belongs to a message of the queue *)
(* stamped strictly after START_TIME.                                      *)
C2_NeverDisplayedUnlessSentAfterStart ==
    \A i \in 1..Len(output) :
        output[i].kind \in {"header", "event"} =>
            \A m \in queue : VStr(m.id) = output[i].id => m.ts > START_TIME

(* an iteration has ended whose poll returned a well-formed message sent   *)
(* in the very millisecond the watcher started, and it was not displayed   *)
C2_Witness ==
    /\ pc = "sleep"
    /\ \E i \in 1..Len(batch) :
          /\ Subscript(batch[i], K_MessageId).ok
          /\ Subscript(batch[i], K_Body).ok
          /\ SentTs(batch[i]).ok
          /\ SentTs(batch[i]).n = START_TIME
          /\ ~Displayed(Subscript(batch[i], K_MessageId).val)

(* the identifiers the filter of line 85 lets through, in order, when the  *)
(* messages are processed one after the other starting from seen-set seen  *)
RECURSIVE ExpectedShown(_, _)
ExpectedShown(entries, seen) ==
    IF entries = <<>> THEN <<>>
    ELSE LET id == Subscript(Head(entries), K_MessageId)
             ts == SentTs(Head(entries))
         IN  IF id.ok /\ ts.ok /\ ts.n > START_TIME /\ id.val \notin seen
             THEN <<id.val>> \o ExpectedShown(Tail(entries), seen \cup {id.val})
             ELSE ExpectedShown(Tail(entries), seen)

ShownThisIteration == EventIds(SubSeq(output, mark + 1, Len(output)))

(* C3: when no interrupt was delivered and the iteration of a successful   *)
(* poll is over (the loop is at its sleep, or the process has ended), the  *)
(* messages displayed in the iteration are exactly the returned messages   *)
(* sent after START_TIME whose identifier was not in SEEN when processed.  *)
C3_DisplayedIffNewAndUnseen ==
    (intAt = "none" /\ batch # <<>> /\ pc \in {"sleep", "done"}) =>
        ShownThisIteration = ExpectedShown(batch, seen0)

(* C4: a poll whose client call fails moves the loop to its sleep with     *)
(* nothing printed, SEEN unchanged and the process running; from that      *)
(* sleep the loop, unless interrupted, polls again.                        *)
C4_FailedPollIgnored ==
    [][/\ (pc = "poll" /\ result' # result /\ ClientFailed(result')) =>
            (pc' = "sleep" /\ SEEN' = SEEN /\ output' = output
                /\ exitStatus' = Running)
       /\ (pc = "sleep" /\ ClientFailed(result) /\ intAt' = intAt) =>
            (pc' = "poll" /\ SEEN' = SEEN /\ output' = output
                /\ exitStatus' = Running)]_vars

(* the loop sleeps after a receive call that exited non-zero *)
C4_Witness ==
    /\ pc = "sleep"
    /\ client.op = "receive-message"
    /\ ClientFailed(result)
    /\ result.rc # 0

(* C5: when get-queue-url exits non-zero or prints no JSON, the process    *)
(* has printed the banner and the error line only, has ended with status   *)
(* 1, and its only client call was that get-queue-url.                     *)
C5_ResolveFailureExits ==
    (client.op = "get-queue-url" /\ ClientFailed(result)) =>
        /\ pc = "done"
        /\ exitStatus = 1
        /\ output = <<BannerLine, NotFoundLine>>
        /\ queue_url = <<>>
        /\ resolves = 1
        /\ SEEN = {}

C5_Witness ==
    /\ client.op = "get-queue-url"
    /\ result # NoResult
    /\ result.rc = 0
    /\ ~IsJson(result.stdout)
    /\ pc = "done"

(* C6: after an interrupt delivered while the loop runs (in the poll,      *)
(* between messages, while a message is shown or rendered, in the sleep)   *)
(* the process has ended with status 0 and the status line is its last     *)
(* line.                                                                   *)
C6_InterruptStopsLoop ==
    intAt \in {"poll", "for", "show", "format", "sleep"} =>
        /\ pc = "done"
        /\ exitStatus = 0
        /\ LastLine = StoppedLine

(* C7: an interrupt delivered during the sleep ends the process with       *)
(* status 0, and the step prints the status line, the only one of the run. *)
C7_InterruptDuringSleep ==
    /\ [](intAt = "sleep" =>
            /\ pc = "done"
            /\ exitStatus = 0
            /\ LastLine = StoppedLine
            /\ Cardinality({i \in 1..Len(output) : output[i] = StoppedLine}) = 1)
    /\ [][(pc = "sleep" /\ intAt' = "sleep") =>
            output' = Append(output, StoppedLine)]_vars

C7_Witness ==
    /\ intAt = "sleep"
    /\ pc = "done"
    /\ Len(output) > 3

(* C8: once the loop has been entered, the process has ended only if an    *)
(* interrupt ended it: with status 0 and the status line as last line.     *)
C8_OnlyInterruptEnds ==
    (pc = "done" /\ queue_url # <<>>) =>
        /\ intAt \in {"poll", "for", "show", "sleep"}
        /\ exitStatus = 0
        /\ LastLine = StoppedLine

WatcherVars ==
    <<pc, exitStatus, SEEN, queue_url, pending, cur, output, result, intAt,
      client>>

(* C11: no step of the watcher (resolve, poll, display, sleep, stop)       *)
(* changes the queue; its client calls are get-queue-url and               *)
(* receive-message only, and every receive-message call asks for at most   *)
(* 10 messages with a wait of 5 seconds and a visibility timeout of 0.     *)
C11_PassiveObserver ==
    /\ [][WatcherVars' # WatcherVars => queue' = queue]_vars
    /\ [](/\ client.op \in {"none", "get-queue-url", "receive-message"}
          /\ client.op = "receive-message" =>
                (client.max = 10 /\ client.wait = 5 /\ client.vis = 0))

(* an iteration has displayed a message that is still in the queue *)
C11_Witness ==
    /\ pc = "sleep"
    /\ client.op = "receive-message"
    /\ \E m \in queue : Displayed(VStr(m.id))

(* C12: SEEN is empty at process start and no step removes an identifier   *)
(* from it: after every step it is a superset of what it was before.       *)
C12_SeenGrowsMonotonically ==
    /\ SEEN = {}
    /\ [][SEEN \subseteq SEEN']_vars

(* a second identifier has been added to a non-empty SEEN *)
C12_Witness ==
    /\ Cardinality(SEEN) = 2
    /\ pc = "sleep"

IsPrefix(a, b) == Len(a) <= Len(b) /\ a = SubSeq(b, 1, Len(a))

(* the poll failed, or its response is an object with no messages *)
NoMessages(r) ==
    \/ ClientFailed(r)
    \/ /\ r # NoResult
       /\ loads(r.stdout).val.t = "dict"
       /\ Subscript(loads(r.stdout).val, K_Messages).ok =>
             Subscript(loads(r.stdout).val, K_Messages).val = VList(<<>>)

(* C14: a receive call is issued only at the head of an iteration and      *)
(* never twice without a sleep in between; events are printed only after   *)
(* the poll, in the order the poll returned the messages, and when the     *)
(* iteration reaches its sleep they are exactly the messages that passed   *)
(* the filter; a poll that failed or returned no messages goes to the      *)
(* sleep as well, and after the sleep comes the next poll.                 *)
C14_PollDisplaySleep ==
    /\ [](unslept <= 1)
    /\ [](pc \in {"for", "show", "sleep"} =>
            /\ unslept = 1
            /\ IsPrefix(ShownThisIteration, ExpectedShown(batch, seen0)))
    /\ [](pc = "sleep" => ShownThisIteration = ExpectedShown(batch, seen0))
    /\ [][/\ unslept' > unslept => (pc = "poll" /\ unslept = 0)
          /\ (unslept' > unslept /\ NoMessages(result')) => pc' = "sleep"
          /\ EventIds(output') # EventIds(output) => pc = "show"
          /\ (pc = "sleep" /\ pc' # "sleep") => pc' \in {"poll", "done"}
          /\ (pc # "sleep" /\ pc' = "poll") => pc \in {"main", "poll"}]_vars

(* an iteration has displayed two messages and reached its sleep *)
C14_Witness ==
    /\ pc = "sleep"
    /\ Len(ShownThisIteration) = 2
    /\ Len(EventIds(output)) = 2

(* C15: every displayed identifier is in SEEN; an identifier enters SEEN   *)
(* only as the identifier of a message of the response of a successful     *)
(* poll whose SentTimestamp is greater than START_TIME, a message that is  *)
(* in the queue; processing a message sent at or before START_TIME leaves  *)
(* SEEN unchanged.                                                         *)
C15_SeenHoldsDisplayedNewMessages ==
    /\ [](/\ \A i \in 1..Len(output) :
                output[i].kind = "event" => output[i].id \in SEEN
          /\ \A id \in SEEN :
                \E m \in queue : VStr(m.id) = id /\ m.ts > START_TIME)
    /\ [][/\ \A id \in SEEN' \ SEEN :
                /\ pc = "for"
                /\ result.rc = 0
                /\ IsJson(result.stdout)
                /\ \E i \in 1..Len(batch) : batch[i] = Head(pending)
                /\ Subscript(Head(pending), K_MessageId) = PyOk(id)
                /\ SentTs(Head(pending)).ok
                /\ SentTs(Head(pending)).n > START_TIME
          /\ (pc = "for" /\ pending' # pending /\ SentTs(Head(pending)).ok
                /\ SentTs(Head(pending)).n <= START_TIME) => SEEN' = SEEN]_vars

(* with a displayed message in SEEN, an iteration has processed a message  *)
(* sent before the watcher started                                         *)
C15_Witness ==
    /\ pc = "sleep"
    /\ SEEN # {}
    /\ \E id \in SEEN : Displayed(id)
    /\ \E i \in 1..Len(batch) :
          SentTs(batch[i]).ok /\ SentTs(batch[i]).n < START_TIME

(* the QueueUrl of the response a get-queue-url call left behind *)
ResolvedUrl(r) == Subscript(loads(r.stdout).val, K_QueueUrl).val.s

(* C16: get-queue-url is called at most once, for QUEUE_NAME, and before   *)
(* any receive-message call; a receive-message call is issued only after   *)
(* that call succeeded, and to the endpoint it returned, which never       *)
(* changes afterwards; START_TIME, the queue name and the region never     *)
(* change.                                                                 *)
C16_ResolveOnceThenPoll ==
    /\ [](/\ resolves <= 1
          /\ client.op = "get-queue-url" => client.target = config.queue_name
          /\ client.op = "receive-message" =>
                (resolves = 1 /\ queue_url # <<>> /\ client.target = queue_url)
          /\ config = Config)
    /\ [][/\ START_TIME' = START_TIME
          /\ config' = config
          /\ resolves' # resolves =>
                (pc = "main" /\ client.op = "none" /\ client'.op = "get-queue-url")
          /\ queue_url' # queue_url =>
                /\ queue_url = <<>>
                /\ resolves' = resolves + 1
                /\ result'.rc = 0
                /\ IsJson(result'.stdout)
                /\ queue_url' = ResolvedUrl(result')
          /\ (client'.op = "receive-message" /\ unslept' # unslept) =>
                client'.target = queue_url]_vars

(* a second poll has been issued to the resolved endpoint *)
C16_Witness ==
    /\ client.op = "receive-message"
    /\ client.target = QueueUrlOf(QUEUE_NAME)
    /\ resolves = 1
    /\ EventIds(output) # <<>>
    /\ pc = "sleep"
    /\ batch = <<>>

-----------------------------------------------------------------------------
(* Bodies handed to format_event *)

MaxBodyLen == 3

MaxFields == 2

GenAlphabet ==
    {Tok("{"), Tok("}"), Tok("["), Tok("]"), Tok(":"), Tok(","), Tok("1"),
     Tok("null"), Tok("SP"), StrTok(DETAILS)}

RECURSIVE TextsOfLen(_)
TextsOfLen(n) ==
    IF n = 0 THEN {<<>>}
    ELSE {Append(t, c) : t \in TextsOfLen(n - 1), c \in GenAlphabet}

GenBodies == UNION {TextsOfLen(n) : n \in 0..MaxBodyLen}

FieldKeys == {<<Tok("a")>>, DETAILS}

FieldValues ==
    {<<Tok("1")>>, <<Tok("null")>>, NestedObj,
     <<StrTok(<<Tok("1")>>)>>, <<StrTok(<<Tok("SP"), Tok("1"), Tok("SP")>>)>>,
     <<StrTok(NestedObj)>>, <<StrTok(<<Tok("not-json")>>)>>, <<StrTok(<<>>)>>,
     <<StrTok(<<StrTok(<<Tok("1")>>)>>)>>}

FieldTexts == {<<StrTok(k), Tok(":")>> \o v : k \in FieldKeys, v \in FieldValues}

RECURSIVE MemberTexts(_)
MemberTexts(n) ==
    IF n = 1 THEN FieldTexts
    ELSE {m \o <<Tok(",")>> \o f : m \in MemberTexts(n - 1), f \in FieldTexts}

ObjBodies ==
    {<<Tok("{")>> \o m \o <<Tok("}")>> :
        m \in UNION {MemberTexts(n) : n \in 1..MaxFields}}

Bodies == GenBodies \cup ObjBodies

-----------------------------------------------------------------------------
(* format_event applied to one body *)

InitRender ==
    /\ body \in Bodies
    /\ out = <<>>
    /\ rpc = "input"
    /\ pc = "done"
    /\ exitStatus = Running
    /\ START_TIME = T0
    /\ SEEN = {}
    /\ queue_url = <<>>
    /\ pending = <<>>
    /\ cur = VNull
    /\ output = <<>>
    /\ queue = {}
    /\ result = NoResult
    /\ intAt = "none"
    /\ batch = <<>>
    /\ seen0 = {}
    /\ mark = 0
    /\ unslept = 0
    /\ resolves = 0
    /\ client = NoCall
    /\ config = Config

Render ==
    /\ rpc = "input"
    /\ out' = format_event(body)
    /\ rpc' = "rendered"
    /\ UNCHANGED body
    /\ UNCHANGED <<pc, exitStatus, START_TIME, SEEN, queue_url, pending, cur>>
    /\ UNCHANGED <<output, intAt, iterVars, callVars, envVars>>

NextRender == Render

SpecRender == InitRender /\ [][NextRender]_vars

-----------------------------------------------------------------------------
(* Properties of format_event *)

(* text is what json.dumps(_, indent=2) prints for the value it denotes *)
IsPretty(text) == loads(text).ok /\ dumps(loads(text).val) = text

(* C9 as stated: for every body, render returns non-empty text that is     *)
(* either the pretty-printed JSON or the original body.                    *)
C9_NonEmptyAlways ==
    rpc = "rendered" =>
        /\ out # <<>>
        /\ (out = body \/ (IsJson(body) /\ IsPretty(out)))

(* C9 amended: for every body, render returns either the pretty-printed    *)
(* JSON or the original body, and the text is non-empty whenever the body  *)
(* is non-empty (the empty body is returned as the empty text).            *)
C9_TotalNonEmptyUnlessEmptyBody ==
    rpc = "rendered" =>
        /\ (out = body \/ (IsJson(body) /\ IsPretty(out)))
        /\ (body # <<>> => out # <<>>)
        /\ (body = <<>> => out = <<>>)

C9_Witness ==
    /\ rpc = "rendered"
    /\ ~IsJson(body)
    /\ body # <<>>
    /\ out = body

(* C10: for a body that parses to an object with a field details, the      *)
(* output is an object with the same keys in the same order; details is    *)
(* the decoded value when it was a string that decodes as JSON, otherwise  *)
(* it is unchanged; every other field is unchanged.                        *)
C10_DetailsExpanded ==
    (rpc = "rendered" /\ IsJson(body) /\ loads(body).val.t = "dict"
        /\ DictHas(loads(body).val, DETAILS)) =>
        LET obj == loads(body).val
            d == DictGet(obj, DETAILS)
            o == loads(out)
        IN  /\ o.ok
            /\ o.val.t = "dict"
            /\ Len(o.val.items) = Len(obj.items)
            /\ \A i \in 1..Len(obj.items) :
                    /\ o.val.items[i].s = obj.items[i].s
                    /\ obj.items[i].s # DETAILS => o.val.items[i] = obj.items[i]
            /\ DictGet(o.val, DETAILS) =
                    IF d.t = "str" /\ IsJson(d.s) THEN loads(d.s).val ELSE d

C10_Witness ==
    /\ rpc = "rendered"
    /\ IsJson(body)
    /\ loads(body).val.t = "dict"
    /\ DictHas(loads(body).val, DETAILS)
    /\ DictHas(loads(body).val, <<Tok("a")>>)
    /\ DictGet(loads(body).val, DETAILS) = VStr(NestedObj)
    /\ DictGet(loads(out).val, DETAILS) = loads(NestedObj).val

(* C13: render returns the body verbatim exactly when the body is not      *)
(* valid JSON; for every body that is valid JSON (object, array or scalar) *)
(* the output is the 2-space-indented serialisation of a parsed value.     *)
C13_RawIffNotJson ==
    rpc = "rendered" =>
        IF IsJson(body) THEN IsPretty(out) ELSE out = body

====
